---- MODULE Spec2Model ----
(***************************************************************************)
(* Model of the schema layer of emailing_server (src/db/base.py): column   *)
(* descriptors, the SQL text builder (SQL, Table), the Database gateway    *)
(* with its shared psycopg2 connection and cursor, and the BaseModel /     *)
(* QuerySet facade.                                                        *)
(*                                                                         *)
(* SQL text is modelled as a sequence of tokens: ' '.join of a token list  *)
(* is the list itself and ', '.join puts a "," token between the parts.    *)
(***************************************************************************)
EXTENDS Naturals, Integers, Sequences, FiniteSets, TLC

(* ------------------------------ bounds -------------------------------- *)

\* rows the database holds in all before the model stops inserting
MaxRows == 1
\* QuerySet objects alive at once
MaxQuerysets == 1
\* longest values list handed to create() / insert_into_table()
MaxValues == 2

(* --------------------------- program constants ------------------------ *)

\* Field.max_length default
DefaultMaxLength == 100

\* entity names handed to BaseModel(name, fields)
Names == {"country", "cars", "Acme"}

\* str(name).lower()
Lower(name) == IF name = "Acme" THEN "acme" ELSE name

\* values handed to create(**kwargs)
Values == {"Acme"}

None == "None"

(* ------------------------- column descriptors ------------------------- *)

Field(n) ==
    [cls |-> "Field", name |-> n, max_length |-> DefaultMaxLength,
     var_char |-> FALSE, not_null |-> FALSE, integer |-> FALSE,
     decimal |-> FALSE, boolean |-> FALSE, default |-> None,
     primary_key |-> FALSE, is_relationship |-> FALSE, model |-> None]

CharField(n) == [Field(n) EXCEPT !.cls = "CharField", !.var_char = TRUE]

IntegerField(n) == [Field(n) EXCEPT !.cls = "IntegerField", !.integer = TRUE]

BooleanField(n) == [Field(n) EXCEPT !.cls = "BooleanField", !.boolean = TRUE]

\* a ForeignKey carries only the referenced model; it has no name attribute
ForeignKey(m) ==
    [Field(None) EXCEPT !.cls = "ForeignKey", !.is_relationship = TRUE,
                        !.model = m]

PrimaryKey(f) == [f EXCEPT !.primary_key = TRUE]

NotNull(f) == [f EXCEPT !.not_null = TRUE]

\* field == value, as `'id' in fields` evaluates it: Field.__eq__ compares the
\* name; every @dataclass subclass gets a generated __eq__ that answers
\* NotImplemented for a str, and the comparison falls back to identity.
FieldEq(f, value) == f.cls = "Field" /\ f.name = value

\* 'id' in fields
ContainsId(fields) == \E i \in 1..Len(fields) : FieldEq(fields[i], "id")

(* ------------------------------ SQL builder --------------------------- *)

InSeq(x, s) == \E i \in 1..Len(s) : s[i] = x

\* SQL.quote
Quote(value) == "'" \o value \o "'"

\* SQL.finalize_sql: ';' in sql
FinalizeSql(sql) == IF InSeq(";", sql) THEN sql ELSE Append(sql, ";")

\* ', '.join(partials)
RECURSIVE CommaJoin(_)
CommaJoin(partials) ==
    IF partials = <<>> THEN <<>>
    ELSE IF Len(partials) = 1 THEN Head(partials)
    ELSE Head(partials) \o <<",">> \o CommaJoin(Tail(partials))

\* SQL.join_partials
JoinPartials(sql_maps, is_create) ==
    CommaJoin(SelectSeq(sql_maps,
                        LAMBDA m : ~(is_create /\ InSeq("id", m))))

\* Table.add_arguments (default is None for every descriptor modelled)
AddArguments(f, sql_map) ==
    LET typed == IF f.var_char
                   THEN Append(sql_map,
                               "varchar(" \o ToString(f.max_length) \o ")")
                 ELSE IF f.integer THEN Append(sql_map, "integer")
                 ELSE IF f.decimal THEN Append(sql_map, "decimal")
                 ELSE IF f.boolean THEN Append(sql_map, "boolean")
                 ELSE sql_map
        nn == IF f.not_null THEN Append(typed, "NOT NULL") ELSE typed
    IN  IF f.primary_key THEN nn \o <<"serial", "PRIMARY KEY">> ELSE nn

\* Table.prepare_field
PrepareField(f) == AddArguments(f, <<f.name>>)

\* Table.get_sql_maps: the list it returns
GetSqlMaps(fields) ==
    LET columns == SelectSeq(fields, LAMBDA f : ~f.is_relationship)
    IN  [i \in 1..Len(columns) |-> PrepareField(columns[i])]

\* keys of an OrderedDict after the assignments d[k] = ... for k in keys
RECURSIVE OrderedKeys(_)
OrderedKeys(keys) ==
    IF keys = <<>> THEN <<>>
    ELSE LET front == OrderedKeys(SubSeq(keys, 1, Len(keys) - 1))
             k == keys[Len(keys)]
         IN  IF InSeq(k, front) THEN front ELSE Append(front, k)

\* Table.get_sql_maps: the keys it leaves in self.field_map
FieldMapKeys(fields) ==
    LET columns == SelectSeq(fields, LAMBDA f : ~f.is_relationship)
    IN  OrderedKeys([i \in 1..Len(columns) |-> columns[i].name])

\* Table.get_sql_maps: the keys it leaves in self.relationship_field_map,
\* f'{self.table_name}_{field.model.model_name}'
RelationshipKeys(table_name, fields) ==
    LET relations == SelectSeq(fields, LAMBDA f : f.is_relationship)
    IN  OrderedKeys([i \in 1..Len(relations) |->
                        table_name \o "_" \o Lower(relations[i].model)])

\* the foreign_key_sql template of Table.add_constraints
ForeignKeySql ==
    <<"{field_name}_id", "INTEGER", "REFERENCES", "{reference_table}", "(",
      "{field_name}_id", ")">>

\* Table.add_constraints: sql_map.append(constraint_map)
AddConstraints(sql_maps) == Append(sql_maps, ForeignKeySql)

\* str.format(field_name=..., reference_table=...) on the joined text
Format(text, field_name, reference_table) ==
    [i \in 1..Len(text) |->
        IF text[i] = "{field_name}_id" THEN field_name \o "_id"
        ELSE IF text[i] = "{reference_table}" THEN reference_table
        ELSE text[i]]

\* Table.new_table_sql: the statement it returns
NewTableSql(table_name, fields) ==
    LET sql_maps == GetSqlMaps(fields)
        arguments ==
            IF RelationshipKeys(table_name, fields) # <<>>
              THEN Format(JoinPartials(AddConstraints(sql_maps), FALSE),
                          "b", "a")
              ELSE JoinPartials(sql_maps, FALSE)
    IN  FinalizeSql(<<"CREATE TABLE IF NOT EXISTS", table_name, "(">>
                    \o arguments \o <<")">>)

\* Table.__init__
NewTable(name) ==
    [table_name |-> name, cached_fields |-> <<>>, field_map |-> <<>>,
     relationship_field_map |-> <<>>]

\* the Table instance after new_table_sql(fields) ran on it
BuiltTable(name, fields) ==
    [table_name |-> name, cached_fields |-> fields,
     field_map |-> FieldMapKeys(fields),
     relationship_field_map |-> RelationshipKeys(name, fields)]

\* Table.fields_count
fields_count(table) == Len(table.cached_fields) - 1

\* Table.field_names raises AttributeError on a descriptor without a name
FieldNamesRaises(table) ==
    \E i \in 1..Len(table.cached_fields) :
        table.cached_fields[i].is_relationship

\* Table.field_names
field_names(table) ==
    [i \in 1..Len(table.cached_fields) |-> table.cached_fields[i].name]

\* a length test that only rejects a values list longer than the fields
ValueCountOnlyMore(table, values) == Len(values) > fields_count(table)

\* the length test of Table.insert_in_table_sql
ValueCountMismatch(table, values) == Len(values) # fields_count(table)

\* formatted_sql_maps of SQL.join_partials: a str item becomes [item]
FormattedSqlMaps(items) == [i \in 1..Len(items) |-> <<items[i]>>]

\* Table.insert_in_table_sql: the statement it returns
InsertInTableSql(table, values) ==
    LET fields == JoinPartials(FormattedSqlMaps(field_names(table)), TRUE)
        quoted == [i \in 1..Len(values) |-> Quote(values[i])]
        vals == JoinPartials(FormattedSqlMaps(quoted), FALSE)
    IN  FinalizeSql(<<"INSERT INTO", table.table_name, "(">> \o fields
                    \o <<")", "VALUES", "(">> \o vals \o <<")">>)

\* Table.select_from_table with fields=None
SelectFromTable(table) ==
    FinalizeSql(<<"SELECT", "*", "FROM", table.table_name>>)

(* -------------------------------- state ------------------------------- *)

VARIABLES
    models,      \* BaseModel objects by the name they were built with
    tables,      \* Database.tables: registry of Table objects by name
    dbTables,    \* tables that exist in the PostgreSQL database
    dbRows,      \* committed rows of each table of the database
    cursor,      \* the one psycopg2 cursor of Database.cursor
    querysets,   \* the QuerySet objects handed out, in creation order
    lastOp,      \* the last call: the exception it raised, the calls it made
                 \* on the connection and the cursor and, for an insert, what
                 \* it was called with and whether it changed anything
    roundTrip    \* progress of the create-then-read scenario on an empty
                 \* database (0..4), -1 once a run left it

vars ==
    <<models, tables, dbTables, dbRows, cursor, querysets, lastOp, roundTrip>>

\* names PostgreSQL knows tables by (unquoted identifiers fold to lower case)
DbNames == {Lower(n) : n \in Names}

\* names the gateway's insert_into_table may be called with
GatewayNames == Names \cup DbNames

\* column lists handed to BaseModel(name, fields)
NameDecl == <<NotNull([Field("name") EXCEPT !.var_char = TRUE])>>

\* the declarations each entity is built with
DeclsOf(name) ==
    IF name = "country"
      THEN {NameDecl, <<PrimaryKey(Field("id")), CharField("name")>>}
    ELSE IF name = "cars"
      THEN {<<ForeignKey("country")>>,
            <<PrimaryKey(IntegerField("id")), CharField("name")>>}
    ELSE {<<CharField("name")>>, <<BooleanField("active"), CharField("name")>>}

\* values lists handed to create() and insert_into_table()
ValueLists == UNION {[1..n -> Values] : n \in 0..MaxValues}

NoError == "no error"
UnknownTable == "ValueError: Table does not exist"
ValueCount == "ValueError: There are more values than fields"
NoNameAttribute == "AttributeError: 'ForeignKey' object has no attribute 'name'"
NoResults == "psycopg2.ProgrammingError: no results to fetch"

\* the record of a call that is not an insert
Call(error, calls) ==
    [error |-> error, calls |-> calls, insert |-> FALSE,
     registered |-> FALSE, arity_ok |-> FALSE, changed |-> FALSE]

\* the record of a call of the gateway's insert: whether the name was in the
\* registry, whether the values list had fields_count entries, and whether
\* the call changed registry, database or cursor
InsertCall(error, calls, registered, arity_ok, changed) ==
    [error |-> error, calls |-> calls, insert |-> TRUE,
     registered |-> registered, arity_ok |-> arity_ok, changed |-> changed]

\* Database.__init__, on a database that holds no table yet or holds every
\* table already
Init ==
    /\ models = <<>>
    /\ tables = <<>>
    /\ dbTables \in {{}, DbNames}
    /\ dbRows = [t \in dbTables |-> <<>>]
    /\ cursor = [result |-> "none", rows |-> <<>>]
    /\ querysets = <<>>
    /\ lastOp = Call(NoError, <<>>)
    /\ roundTrip = IF dbTables = {} THEN 0 ELSE -1

(* --------------------------- database gateway ------------------------- *)

\* tokens of text[from..to] that are not the "," separator
Items(text, from, to) ==
    SelectSeq(SubSeq(text, from, to), LAMBDA t : t # ",")

PositionOf(tok, text) == CHOOSE i \in 1..Len(text) : text[i] = tok

\* the table a SELECT or INSERT statement names, as PostgreSQL resolves it
StatementTable(sql) == Lower(IF sql[1] = "SELECT" THEN sql[4] ELSE sql[2])

InsertColumns(sql) == Items(sql, 4, PositionOf("VALUES", sql) - 2)

InsertValues(sql) ==
    Items(sql, PositionOf("VALUES", sql) + 2, PositionOf(";", sql) - 2)

\* cursor.execute(sql) succeeds: the table exists, and an INSERT names at
\* least one column and as many values as columns
Accepted(sql) ==
    /\ StatementTable(sql) \in dbTables
    /\ sql[1] = "INSERT INTO" =>
          /\ InsertColumns(sql) # <<>>
          /\ Len(InsertColumns(sql)) = Len(InsertValues(sql))

\* the rows of the database after cursor.execute(sql); connection.commit()
RowsAfter(sql) ==
    IF sql[1] = "INSERT INTO" /\ Accepted(sql)
      THEN [dbRows EXCEPT ![StatementTable(sql)] =
               Append(@, [tbl |-> StatementTable(sql),
                          vals |-> InsertValues(sql)])]
      ELSE dbRows

\* the cursor after cursor.execute(sql): the result set of a SELECT, and no
\* result set after an INSERT or a statement that failed
CursorAfter(sql) ==
    IF sql[1] = "SELECT" /\ Accepted(sql)
      THEN [result |-> "rows", rows |-> dbRows[StatementTable(sql)]]
      ELSE [result |-> "none", rows |-> <<>>]

\* connection calls of Database._execute_cursor
ExecuteCalls(sql) ==
    IF Accepted(sql) THEN <<"execute", "commit">>
    ELSE <<"execute", "rollback">>

RECURSIVE SumLen(_, _)
SumLen(f, S) ==
    IF S = {} THEN 0
    ELSE LET t == CHOOSE x \in S : TRUE IN Len(f[t]) + SumLen(f, S \ {t})

TotalRows == SumLen(dbRows, DOMAIN dbRows)

\* Database._execute_cursor
ExecuteCursor(sql) ==
    /\ sql[1] = "INSERT INTO" /\ Accepted(sql) =>
          TotalRows < MaxRows
    /\ dbRows' = RowsAfter(sql)
    /\ cursor' = CursorAfter(sql)
    /\ UNCHANGED dbTables

\* a lookup that falls back to a fresh Table, as BaseModel.get_table builds
LookupOrNewTable(name) ==
    IF name \in DOMAIN tables THEN <<tables[name]>> ELSE <<NewTable(name)>>

\* self.tables[name] of Database.insert_into_table: <<table>>, or <<>> when
\* the lookup raises
LookupTable(name) ==
    IF name \in DOMAIN tables THEN <<tables[name]>> ELSE <<>>

\* the exception Database.insert_into_table raises, NoError when it runs the
\* INSERT
InsertError(name, values) ==
    IF LookupTable(name) = <<>> THEN UnknownTable
    ELSE IF ValueCountMismatch(LookupTable(name)[1], values) THEN ValueCount
    ELSE IF FieldNamesRaises(LookupTable(name)[1]) THEN NoNameAttribute
    ELSE NoError

\* Database.insert_into_table
InsertIntoTable(name, values) ==
    LET error == InsertError(name, values)
        sql == InsertInTableSql(LookupTable(name)[1], values)
        registered == name \in DOMAIN tables
        arity_ok == registered /\ Len(values) = fields_count(tables[name])
    IN  /\ IF error # NoError
             THEN UNCHANGED <<dbTables, dbRows, cursor>>
             ELSE ExecuteCursor(sql)
        /\ lastOp' = InsertCall(
               error,
               IF error # NoError THEN <<>> ELSE ExecuteCalls(sql),
               registered, arity_ok,
               <<tables', dbTables', dbRows', cursor'>>
                   # <<tables, dbTables, dbRows, cursor>>)

\* Database.insert_into_table called directly on the gateway
Insert(name, values) ==
    /\ UNCHANGED <<models, tables, querysets>>
    /\ roundTrip' = -1
    /\ InsertIntoTable(name, values)

\* Database._create_table: the registry after it
CreateTable(name, fields) ==
    [n \in DOMAIN tables \cup {name} |->
        IF n = name THEN BuiltTable(name, fields) ELSE tables[n]]

(* ------------------------------- BaseModel ---------------------------- *)

\* the fields list after `if 'id' not in fields: fields.insert(0, ...)`
WithId(fields) ==
    IF ContainsId(fields) THEN fields
    ELSE <<PrimaryKey(Field("id"))>> \o fields

\* BaseModel.__init__; an entity is declared once, after the Models its
\* relationships refer to
ModelInit(name, fields) ==
    /\ name \notin DOMAIN models
    /\ \A i \in 1..Len(fields) :
          fields[i].is_relationship => fields[i].model \in DOMAIN models
    /\ models' = [n \in DOMAIN models \cup {name} |->
                    IF n = name
                      THEN [model_name |-> Lower(name),
                            fields |-> WithId(fields)]
                      ELSE models[n]]
    /\ tables' = CreateTable(name, WithId(fields))
    /\ lastOp' = Call(NoError, <<>>)
    /\ roundTrip' = IF roundTrip = 0 /\ name = "country" /\ fields = NameDecl
                      THEN 1 ELSE -1
    /\ UNCHANGED <<dbTables, dbRows, cursor, querysets>>

\* BaseModel.create
Create(m, values) ==
    /\ m \in DOMAIN models
    /\ UNCHANGED <<models, tables, querysets>>
    /\ roundTrip' = IF roundTrip = 1 /\ m = "country" /\ values = <<"Acme">>
                      THEN 2 ELSE -1
    /\ InsertIntoTable(models[m].model_name, values)

\* QuerySet.__init__
NewQuerySet(m) ==
    [model |-> m, cache |-> <<>>, populated |-> FALSE]

\* BaseModel.all; the caller keeps the QuerySet it returns, or drops it
All(m, keep) ==
    /\ m \in DOMAIN models
    /\ keep => Len(querysets) < MaxQuerysets
    /\ LET sql == SelectFromTable(NewTable(models[m].model_name))
       IN  /\ ExecuteCursor(sql)
           /\ lastOp' = Call(NoError, ExecuteCalls(sql))
    /\ querysets' = IF keep THEN Append(querysets, NewQuerySet(m))
                    ELSE querysets
    /\ roundTrip' = IF roundTrip = 2 /\ m = "country" /\ keep THEN 3 ELSE -1
    /\ UNCHANGED <<models, tables>>

(* -------------------------------- QuerySet ---------------------------- *)

\* `if not self._cache` of QuerySet.populate_cache
CacheEmpty(qs) == qs.cache = <<>>

\* the exception list(self._model._cursor) raises, NoError when it iterates
PopulateError(qs) ==
    IF ~CacheEmpty(qs) THEN NoError
    ELSE IF cursor.result # "rows" THEN NoResults
    ELSE NoError

\* what QuerySet.count returns once populate_cache ran
CountResult(qs) == Len(qs.cache)

\* QuerySet.populate_cache, run by count() and by __str__
Materialize(q) ==
    LET qs == querysets[q]
        error == PopulateError(qs)
        drain == CacheEmpty(qs) /\ error = NoError
        cache == IF drain THEN cursor.rows ELSE qs.cache
    IN  /\ IF error # NoError
             THEN /\ lastOp' = Call(error, <<>>)
                  /\ UNCHANGED <<querysets, cursor>>
             ELSE /\ querysets' =
                        [querysets EXCEPT ![q] =
                           [qs EXCEPT !.cache = cache, !.populated = TRUE]]
                  /\ cursor' = IF drain THEN [cursor EXCEPT !.rows = <<>>]
                               ELSE cursor
                  /\ lastOp' = Call(NoError,
                                    IF drain THEN <<"iterate">> ELSE <<>>)
        /\ UNCHANGED <<models, tables, dbTables, dbRows>>

\* QuerySet.count
Count(q) ==
    /\ q \in 1..Len(querysets)
    /\ Materialize(q)
    /\ roundTrip' = IF roundTrip = 3 /\ q = 1 THEN 4 ELSE -1

\* QuerySet.__str__
Str(q) ==
    /\ q \in 1..Len(querysets)
    /\ Materialize(q)
    /\ roundTrip' = -1

Next ==
    \/ \E name \in Names : \E fields \in DeclsOf(name) : ModelInit(name, fields)
    \/ \E name \in GatewayNames, values \in ValueLists :
          Insert(name, values)
    \/ \E m \in Names, values \in ValueLists : Create(m, values)
    \/ \E m \in Names, keep \in BOOLEAN : All(m, keep)
    \/ \E q \in 1..MaxQuerysets : Count(q)
    \/ \E q \in 1..MaxQuerysets : Str(q)

Spec == Init /\ [][Next]_vars

(* -------------------------------- claims ------------------------------ *)

\* the column list of a CREATE TABLE statement: the text between the outer
\* parentheses
CreateArguments(sql) == SubSeq(sql, 4, Len(sql) - 2)

\* positions of the column list at which a column definition starts
ColumnStarts(sql) ==
    LET args == CreateArguments(sql)
    IN  {i \in 1..Len(args) : i = 1 \/ args[i - 1] = ","}

\* number of columns of a CREATE TABLE statement that are named id
IdColumns(sql) ==
    Cardinality({i \in ColumnStarts(sql) : CreateArguments(sql)[i] = "id"})

\* part occurs in text as a run of consecutive tokens
Contains(text, part) ==
    \E i \in 0..(Len(text) - Len(part)) :
        SubSeq(text, i + 1, i + Len(part)) = part

\* the CREATE TABLE statement _create_table synthesized for a registered table
CreateSqlOf(n) == NewTableSql(n, tables[n].cached_fields)

\* the declared column descriptors of a table that are not the id column
NonIdColumns(table) ==
    {i \in 1..Len(table.cached_fields) :
        /\ ~table.cached_fields[i].is_relationship
        /\ table.cached_fields[i].name # "id"}

\* <L>_<T>_id INTEGER REFERENCES <T>(<L>_<T>_id)
ReferenceFragment(L, T) ==
    <<L \o "_" \o T \o "_id", "INTEGER", "REFERENCES", T, "(",
      L \o "_" \o T \o "_id", ")">>

\* C1: on a database with no tables, building the Model country with the one
\* column name (varchar, not null), then create(name='Acme'), then all(), then
\* count() on the QuerySet returns 1.
C1_RoundTripCountsOne ==
    roundTrip = 4 => lastOp.error = NoError /\ CountResult(querysets[1]) = 1

\* C2: every table name in the gateway's registry is the name of a table
\* whose CREATE TABLE statement was executed and committed, so the table
\* exists in the database.
C2_RegisteredTablesWereCreated ==
    \A n \in DOMAIN tables : Lower(n) \in dbTables

\* C3: the CREATE TABLE statement synthesized for a Model has exactly one
\* column named id, and it is the first column.
C3_ExactlyOneIdColumn ==
    \A n \in DOMAIN tables :
        /\ IdColumns(CreateSqlOf(n)) = 1
        /\ CreateArguments(CreateSqlOf(n))[1] = "id"

\* C4: fields_count of every registered Table equals the number of declared
\* columns other than id.
C4_FieldsCountIsNonIdColumns ==
    \A n \in DOMAIN tables :
        fields_count(tables[n]) = Cardinality(NonIdColumns(tables[n]))

\* C5: the CREATE TABLE statement of a Model L with a reference to a Model T
\* has the base id column and the fragment
\* <L>_<T>_id INTEGER REFERENCES <T>(<L>_<T>_id).
C5_ReferenceFragmentNamesTables ==
    \A n \in DOMAIN tables :
        \A i \in 1..Len(tables[n].cached_fields) :
            tables[n].cached_fields[i].is_relationship =>
                /\ IdColumns(CreateSqlOf(n)) = 1
                /\ Contains(CreateSqlOf(n),
                            ReferenceFragment(
                                n, Lower(tables[n].cached_fields[i].model)))

\* C6: an insert into a registered table with a values list whose length
\* differs from the table's fields_count raises the value-count error, makes
\* no call on the connection and leaves registry, database and cursor alone.
C6_ArityMismatchRaisesBeforeExecute ==
    (lastOp.insert /\ lastOp.registered /\ ~lastOp.arity_ok)
    => /\ lastOp.error = ValueCount
       /\ lastOp.calls = <<>>
       /\ ~lastOp.changed

\* a value-count error was just raised while the database holds a row
C6_Witness ==
    /\ lastOp.insert /\ lastOp.registered /\ ~lastOp.arity_ok
    /\ tables # <<>>
    /\ TotalRows > 0

\* C7: an insert under a name absent from the registry raises 'Table does not
\* exist', makes no call on the connection and leaves registry, database and
\* cursor alone.
C7_UnknownTableRaisesBeforeExecute ==
    (lastOp.insert /\ ~lastOp.registered)
    => /\ lastOp.error = UnknownTable
       /\ lastOp.calls = <<>>
       /\ ~lastOp.changed

\* an unknown-table error was just raised while other tables are registered
\* and the cursor holds an unread result set
C7_Witness ==
    /\ lastOp.insert /\ ~lastOp.registered
    /\ tables # <<>>
    /\ cursor.result = "rows"

\* C8: once a QuerySet has populated its cache, a later count() or str() does
\* not iterate the cursor again and keeps the cache, so that count() returns
\* what it returned before.
C8_CachePopulatedOnce ==
    [][\A q \in 1..Len(querysets) :
          (querysets[q].populated /\ (Count(q) \/ Str(q)))
          => /\ lastOp'.calls = <<>>
             /\ cursor' = cursor
             /\ querysets'[q].cache = querysets[q].cache
             /\ CountResult(querysets'[q]) = CountResult(querysets[q])]_vars

\* C9: every Model's Table is registered under the case-folded name create()
\* looks up, so create() does not raise the unknown-table error.
C9_RegisteredUnderModelName ==
    \A m \in DOMAIN models : models[m].model_name \in DOMAIN tables

\* C10: the cache of a QuerySet returned by M.all() holds only rows of M's own
\* table, whatever ran on the shared cursor before its first count().
C10_CacheHoldsOwnRows ==
    \A q \in 1..Len(querysets) :
        \A i \in 1..Len(querysets[q].cache) :
            querysets[q].cache[i].tbl = models[querysets[q].model].model_name

====
